---- MODULE Spec2Model ----
(***************************************************************************)
(* GoogleTextToSpeechService (manim_voiceover/services/gemini_tts.py):     *)
(* lazy provider-client initialisation and the cache-lookup-or-synthesize  *)
(* flow of generate_from_text, for one service instance used by callers.   *)
(*                                                                         *)
(* Python values are encoded as follows.  None is the string "None" for    *)
(* str-typed optionals, the record NoneRec for dict/path-typed optionals   *)
(* and NoClient (0) for the client handle.  A text is a sequence of        *)
(* tokens, a token being a word or a bookmark marker.  **kwargs is a       *)
(* function whose domain is the set of keywords present in the call.       *)
(***************************************************************************)
EXTENDS Integers, Sequences, FiniteSets, TLC

\* ------------------------------------------------------------------ bounds
\* Number of generate_from_text calls started in one behaviour.
MaxCalls == 2

\* ------------------------------------------------------------ value domains
None == "None"
NoneRec == [none |-> TRUE]
NoClient == 0

Procs == {"c1", "c2"}
SeqCallers == {"c1"}

Bookmark == "<bookmark mark='a'/>"
Texts ==
    { <<"Hello", Bookmark, "world">>,
      <<"Hello", "world">>,
      <<Bookmark, "Hi">> }

EmptyKwargs == [k \in {} |-> None]
KwargsSet ==
    { EmptyKwargs,
      [prompt |-> None],
      [prompt |-> ""],
      [prompt |-> "excited"],
      [lang |-> "fr-FR"],
      [voice_name |-> "Kore"],
      [model_name |-> "gemini-2.5-flash-tts"],
      [prompt |-> "excited", lang |-> "fr-FR", voice_name |-> "Kore",
       model_name |-> "gemini-2.5-flash-tts"] }

CacheDirArgs == {None, "", "alt_cache"}
ExplicitPath == [literal |-> "out.mp3"]
PathArgs == {NoneRec, ExplicitPath}

\* The arguments of a call: every text with every set of overrides, and one
\* text with every cache_dir and path argument.
CallArgs ==
    { [text |-> t, cache_dir |-> None, path |-> NoneRec, kwargs |-> kw] :
        t \in Texts, kw \in KwargsSet }
    \cup
    { [text |-> <<"Hello", Bookmark, "world">>, cache_dir |-> d, path |-> pa,
       kwargs |-> EmptyKwargs] : d \in CacheDirArgs, pa \in PathArgs }

\* The arguments used by concurrent callers.
ConcCallArgs ==
    { [text |-> t, cache_dir |-> None, path |-> NoneRec,
       kwargs |-> EmptyKwargs] : t \in Texts }

StylePrompts == {None, "calm"}
ClientErrors == {"DefaultCredentialsError"}
SynthesisErrors == {"ResourceExhausted"}
IOErrors == {"OSError"}

VARIABLES
    texttospeech,   \* module global: "module" if the import succeeded, else None
    self,           \* the service instance's attributes
    cache,          \* cache collaborator: <<cache dir, payload>> -> entry
    files,          \* file system: <<cache dir, path>> -> content
    pc,             \* each caller's position in generate_from_text
    frame,          \* each caller's arguments and local variables
    calls,          \* calls started so far
    ctorCalls,      \* TextToSpeechClient() constructions that returned
    synthCalls,     \* <<cache dir, payload>> -> synthesize_speech invocations
    generated,      \* <<cache dir, payload>> -> records returned after synthesis
    constructed     \* the attributes as __init__ set them

vars == <<texttospeech, self, cache, files, pc, frame, calls, ctorCalls,
          synthCalls, generated, constructed>>

\* --------------------------------------------------------- pure functions
\* helper.remove_bookmarks: strips every bookmark marker, keeps the prose.
remove_bookmarks(text) == SelectSeq(text, LAMBDA tok : tok # Bookmark)

\* variant: the raw text is used
NormalizedText_raw(text) == text

\* text = remove_bookmarks(text)
NormalizedText(text) == remove_bookmarks(text)

\* variant: the override is ignored
kwargs_get_default(kwargs, key, default) == default

\* kwargs.get(key, default)
kwargs_get(kwargs, key, default) ==
    IF key \in DOMAIN kwargs THEN kwargs[key] ELSE default

\* input_data = {...}
InputData(text, model_name, voice_name, lang, prompt) ==
    [input_text |-> text,
     service    |-> "google_tts",
     model      |-> model_name,
     voice      |-> voice_name,
     lang       |-> lang,
     prompt     |-> prompt]

\* variant: the client is constructed on every call
NeedsClient_always(client) == TRUE

\* if self.client is None
NeedsClient(client) == client = NoClient

\* variant: the cached entry is ignored
IsHit_never(cached_result) == FALSE

\* if cached_result is not None
IsHit(cached_result) == cached_result # NoneRec

\* variant: the hit branch returns nothing
HitResult_dropped(cached_result) == NoneRec

\* return cached_result
HitResult(cached_result) == cached_result

\* truthiness of an Optional[str]
Truthy(s) == s # None /\ s # ""

\* base_cache_dir = cache_dir or self.cache_dir
BaseCacheDir(cache_dir, self_cache_dir) ==
    IF Truthy(cache_dir) THEN cache_dir ELSE self_cache_dir

\* SpeechService.get_cached_result: the entry recorded in cache_dir whose
\* input_data equals the payload, or None.
get_cached_result(input_data, cache_dir) ==
    IF <<cache_dir, input_data>> \in DOMAIN cache
    THEN cache[<<cache_dir, input_data>>]
    ELSE NoneRec

\* SpeechService.get_audio_basename: a filename stem determined by the payload.
get_audio_basename(input_data) == [basename_of |-> input_data]

\* variant: the derived name is used even when a path was passed
ResolvePath_derived(path, input_data) ==
    [stem |-> get_audio_basename(input_data), ext |-> ".mp3"]

\* if path is None: path = self.get_audio_basename(input_data) + ".mp3"
ResolvePath(path, input_data) ==
    IF path = NoneRec
    THEN [stem |-> get_audio_basename(input_data), ext |-> ".mp3"]
    ELSE path

\* variant: the prompt is attached whatever its value
SynthesisInput_always(text, prompt) == [text |-> text, prompt |-> prompt]

\* texttospeech.SynthesisInput(text=text[, prompt=prompt])
SynthesisInput(text, prompt) ==
    IF Truthy(prompt)
    THEN [text |-> text, prompt |-> prompt]
    ELSE [text |-> text]

\* texttospeech.VoiceSelectionParams(...)
VoiceSelectionParams(lang, voice_name, model_name) ==
    [language_code |-> lang, name |-> voice_name, model_name |-> model_name]

\* texttospeech.AudioConfig(audio_encoding=MP3)
AudioConfig == [audio_encoding |-> "MP3"]

\* the response of a synthesize_speech call that returns
SynthesizeResponse(input, voice, audio_config) ==
    [audio_content |-> [input |-> input, voice |-> voice,
                        audio_config |-> audio_config]]

\* json_dict = {...}
JsonDict(text, input_data, path) ==
    [input_text |-> text, input_data |-> input_data, original_audio |-> path]

\* variant: the error is wrapped in another one
ReraiseInit_wrapped(e) == "RuntimeError"

\* except Exception as e: logger.error(...); raise     (in _ensure_client)
ReraiseInit(e) == e

\* variant: the error is wrapped in another one
ReraiseGenerate_wrapped(e) == "RuntimeError"

\* except Exception as e: logger.error(...); raise     (in generate_from_text)
ReraiseGenerate(e) == e

\* the file left behind by open("wb") when the write does not complete
TruncatedFile == [truncated |-> TRUE]

\* ----------------------------------------------------------------- helpers
EmptyFcn == [k \in {} |-> 0]

Put(f, k, v) == [x \in DOMAIN f \cup {k} |-> IF x = k THEN v ELSE f[x]]

Bump(f, k) == Put(f, k, IF k \in DOMAIN f THEN f[k] + 1 ELSE 1)

Append1(f, k, v) == Put(f, k, IF k \in DOMAIN f THEN Append(f[k], v) ELSE <<v>>)

IdleFrame ==
    [text_arg |-> <<>>, text |-> <<>>, cache_dir |-> None,
     path_arg |-> NoneRec, path |-> NoneRec, kwargs |-> EmptyKwargs,
     prompt |-> None, lang |-> None, voice_name |-> None, model_name |-> None,
     input_data |-> NoneRec, base_cache_dir |-> None,
     cached_result |-> NoneRec, synthesis_input |-> NoneRec,
     voice_params |-> NoneRec, response |-> NoneRec, result |-> NoneRec,
     thrown |-> None, exc |-> None, nsynth |-> 0, wrote |-> FALSE,
     files0 |-> EmptyFcn, cache0 |-> EmptyFcn]

Key(p) == <<frame[p].base_cache_dir, frame[p].input_data>>

\* ------------------------------------------------------------------- Init
\* __init__: the attributes are stored, self.client = None.  lang,
\* voice_name, model_name take their declared defaults; cache_dir is the
\* base class's attribute.
Init ==
    /\ texttospeech \in {None, "module"}
    /\ \E sp \in StylePrompts :
          self = [lang         |-> "en-US",
                  voice_name   |-> "Charon",
                  model_name   |-> "gemini-2.5-pro-tts",
                  location     |-> "global",
                  style_prompt |-> sp,
                  cache_dir    |-> "voiceovers",
                  client       |-> NoClient]
    /\ cache = EmptyFcn
    /\ files = EmptyFcn
    /\ pc = [p \in Procs |-> "idle"]
    /\ frame = [p \in Procs |-> IdleFrame]
    /\ calls = 0
    /\ ctorCalls = 0
    /\ synthCalls = EmptyFcn
    /\ generated = EmptyFcn
    /\ constructed = self

\* ---------------------------------------------------------------- actions
\* A caller enters generate_from_text(text, cache_dir, path, **kwargs).
Enter(p, a) ==
    /\ pc[p] = "idle"
    /\ calls < MaxCalls
    /\ calls' = calls + 1
    /\ frame' = [frame EXCEPT ![p] =
                   [IdleFrame EXCEPT !.text_arg = a.text, !.text = a.text,
                                     !.cache_dir = a.cache_dir,
                                     !.path_arg = a.path, !.path = a.path,
                                     !.kwargs = a.kwargs,
                                     !.files0 = files, !.cache0 = cache]]
    /\ pc' = [pc EXCEPT ![p] = "ensure_client"]
    /\ UNCHANGED <<constructed, texttospeech, self, cache, files, ctorCalls, synthCalls,
                   generated>>

\* Calls made one after another: a call starts when no other is running.
Call(p) ==
    /\ \A q \in Procs : pc[q] = "idle"
    /\ \E a \in CallArgs : Enter(p, a)

\* Calls made by concurrent callers sharing the instance.
CallConcurrently(p) ==
    \E a \in ConcCallArgs : Enter(p, a)

\* _ensure_client: "if self.client is None", "if texttospeech is None: raise"
EnsureClient(p) ==
    /\ pc[p] = "ensure_client"
    /\ IF ~NeedsClient(self.client)
       THEN /\ pc' = [pc EXCEPT ![p] = "resolve"]
            /\ UNCHANGED frame
       ELSE IF texttospeech = None
       THEN /\ pc' = [pc EXCEPT ![p] = "raised"]
            /\ frame' = [frame EXCEPT ![p].thrown = "ImportError",
                                      ![p].exc = "ImportError"]
       ELSE /\ pc' = [pc EXCEPT ![p] = "construct"]
            /\ UNCHANGED frame
    /\ UNCHANGED <<constructed, texttospeech, self, cache, files, calls, ctorCalls,
                   synthCalls, generated>>

\* variant: construction re-checks self.client and is skipped when another
\* caller has already set it
ConstructClient_guarded(p) ==
    /\ pc[p] = "construct"
    /\ self.client = NoClient
    /\ \/ /\ self' = [self EXCEPT !.client = ctorCalls + 1]
          /\ ctorCalls' = ctorCalls + 1
          /\ pc' = [pc EXCEPT ![p] = "resolve"]
          /\ UNCHANGED frame
       \/ /\ \E e \in ClientErrors :
                frame' = [frame EXCEPT ![p].thrown = e,
                                       ![p].exc = ReraiseInit(e)]
          /\ pc' = [pc EXCEPT ![p] = "raised"]
          /\ UNCHANGED <<self, ctorCalls>>
    /\ UNCHANGED <<constructed, texttospeech, cache, files, calls, synthCalls,
                   generated>>

\* _ensure_client: "self.client = texttospeech.TextToSpeechClient()" returns
\* a new client, or raises and the handler logs and re-raises.
ConstructClient(p) ==
    /\ pc[p] = "construct"
    /\ \/ /\ self' = [self EXCEPT !.client = ctorCalls + 1]
          /\ ctorCalls' = ctorCalls + 1
          /\ pc' = [pc EXCEPT ![p] = "resolve"]
          /\ UNCHANGED frame
       \/ /\ \E e \in ClientErrors :
                frame' = [frame EXCEPT ![p].thrown = e,
                                       ![p].exc = ReraiseInit(e)]
          /\ pc' = [pc EXCEPT ![p] = "raised"]
          /\ UNCHANGED <<self, ctorCalls>>
    /\ UNCHANGED <<constructed, texttospeech, cache, files, calls, synthCalls, generated>>

\* Parameter resolution, bookmark removal and the payload.
Resolve(p) ==
    /\ pc[p] = "resolve"
    /\ LET f == frame[p]
           prompt     == kwargs_get(f.kwargs, "prompt", self.style_prompt)
           lang       == kwargs_get(f.kwargs, "lang", self.lang)
           voice_name == kwargs_get(f.kwargs, "voice_name", self.voice_name)
           model_name == kwargs_get(f.kwargs, "model_name", self.model_name)
           text       == NormalizedText(f.text)
       IN frame' = [frame EXCEPT ![p] =
                      [f EXCEPT !.prompt = prompt, !.lang = lang,
                                !.voice_name = voice_name,
                                !.model_name = model_name,
                                !.text = text,
                                !.input_data = InputData(text, model_name,
                                                 voice_name, lang, prompt)]]
    /\ pc' = [pc EXCEPT ![p] = "lookup"]
    /\ UNCHANGED <<constructed, texttospeech, self, cache, files, calls, ctorCalls,
                   synthCalls, generated>>

\* Cache lookup: a hit returns the cached entry, a miss resolves the path.
Lookup(p) ==
    /\ pc[p] = "lookup"
    /\ LET f == frame[p]
           base_cache_dir == BaseCacheDir(f.cache_dir, self.cache_dir)
           cached_result  == get_cached_result(f.input_data, base_cache_dir)
       IN IF IsHit(cached_result)
          THEN /\ frame' = [frame EXCEPT ![p] =
                              [f EXCEPT !.base_cache_dir = base_cache_dir,
                                        !.cached_result = cached_result,
                                        !.result = HitResult(cached_result)]]
               /\ pc' = [pc EXCEPT ![p] = "done"]
          ELSE /\ frame' = [frame EXCEPT ![p] =
                              [f EXCEPT !.base_cache_dir = base_cache_dir,
                                        !.cached_result = cached_result,
                                        !.path = ResolvePath(f.path,
                                                             f.input_data)]]
               /\ pc' = [pc EXCEPT ![p] = "synthesize"]
    /\ UNCHANGED <<constructed, texttospeech, self, cache, files, calls, ctorCalls,
                   synthCalls, generated>>

\* The provider call: it returns the audio, or raises and the handler logs
\* and re-raises.
Synthesize(p) ==
    /\ pc[p] = "synthesize"
    /\ LET f == frame[p]
           synthesis_input == SynthesisInput(f.text, f.prompt)
           voice_params    == VoiceSelectionParams(f.lang, f.voice_name,
                                                   f.model_name)
           g == [f EXCEPT !.synthesis_input = synthesis_input,
                          !.voice_params = voice_params,
                          !.nsynth = f.nsynth + 1]
       IN \/ /\ frame' = [frame EXCEPT ![p] =
                            [g EXCEPT !.response =
                               SynthesizeResponse(synthesis_input, voice_params,
                                                  AudioConfig)]]
             /\ pc' = [pc EXCEPT ![p] = "write"]
          \/ /\ \E e \in SynthesisErrors :
                   frame' = [frame EXCEPT ![p] =
                               [g EXCEPT !.thrown = e,
                                         !.exc = ReraiseGenerate(e)]]
             /\ pc' = [pc EXCEPT ![p] = "raised"]
    /\ synthCalls' = Bump(synthCalls, Key(p))
    /\ UNCHANGED <<constructed, texttospeech, self, cache, files, calls, ctorCalls,
                   generated>>

\* The audio is written and the Result Record returned; or open() raises
\* (no file), or write() raises (the file was already truncated), and the
\* handler logs and re-raises.
WriteAudio(p) ==
    /\ pc[p] = "write"
    /\ LET f == frame[p]
           target == <<f.base_cache_dir, f.path>>
       IN \/ /\ files' = Put(files, target, f.response.audio_content)
             /\ frame' = [frame EXCEPT ![p] =
                            [f EXCEPT !.wrote = TRUE,
                                      !.result = JsonDict(f.text, f.input_data,
                                                          f.path)]]
             /\ generated' = Append1(generated, Key(p),
                                     JsonDict(f.text, f.input_data, f.path))
             /\ pc' = [pc EXCEPT ![p] = "done"]
          \/ /\ \E e \in IOErrors :
                   frame' = [frame EXCEPT ![p] =
                               [f EXCEPT !.thrown = e,
                                         !.exc = ReraiseGenerate(e)]]
             /\ \/ UNCHANGED files
                \/ files' = Put(files, target, TruncatedFile)
             /\ pc' = [pc EXCEPT ![p] = "raised"]
             /\ UNCHANGED generated
    /\ UNCHANGED <<constructed, texttospeech, self, cache, calls, ctorCalls, synthCalls>>

\* The caller receives the Result Record.  After a synthesis the cache
\* collaborator records it under the cache directory that was queried; an
\* entry already recorded for the payload stays the one that is found.
CallerReceives(p) ==
    /\ pc[p] = "done"
    /\ LET f == frame[p]
           k == <<f.base_cache_dir, f.result.input_data>>
       IN cache' = IF f.cached_result = NoneRec /\ k \notin DOMAIN cache
                   THEN Put(cache, k, f.result)
                   ELSE cache
    /\ frame' = [frame EXCEPT ![p] = IdleFrame]
    /\ pc' = [pc EXCEPT ![p] = "idle"]
    /\ UNCHANGED <<constructed, texttospeech, self, files, calls, ctorCalls, synthCalls,
                   generated>>

\* The caller receives the exception.
CallerCatches(p) ==
    /\ pc[p] = "raised"
    /\ frame' = [frame EXCEPT ![p] = IdleFrame]
    /\ pc' = [pc EXCEPT ![p] = "idle"]
    /\ UNCHANGED <<constructed, texttospeech, self, cache, files, calls, ctorCalls,
                   synthCalls, generated>>

\* --------------------------------------------------------- specifications
Step(p) ==
    \/ EnsureClient(p)
    \/ ConstructClient(p)
    \/ Resolve(p)
    \/ Lookup(p)
    \/ Synthesize(p)
    \/ WriteAudio(p)
    \/ CallerReceives(p)
    \/ CallerCatches(p)

\* one caller, calls issued one after another
Next == \E p \in SeqCallers : Call(p) \/ Step(p)

Spec == Init /\ [][Next]_vars

\* two callers sharing the instance, steps interleaved
NextConc == \E p \in Procs : CallConcurrently(p) \/ Step(p)

SpecConc == Init /\ [][NextConc]_vars

\* ------------------------------------------------------------ properties
Running(p) == pc[p] # "idle"

\* the caller is past the cache lookup of its call
PastLookup(p) == Running(p) /\ frame[p].base_cache_dir # None

\* the caller is past the provider call of its call
PastSynthesis(p) == Running(p) /\ frame[p].nsynth > 0

HasBookmark(text) == \E i \in 1..Len(text) : text[i] = Bookmark

\* C1 as stated: for every (cache directory, payload) the provider's
\* synthesize operation is invoked at most once in total over all calls.
C1_SynthesizedAtMostOnce ==
    \A k \in DOMAIN synthCalls : synthCalls[k] <= 1

\* C1 as amended: for calls made one after another, at most one call per
\* (cache directory, payload) returns a freshly synthesized Result Record;
\* the entry the cache holds for the payload is that record; a call that
\* finds it returns it without invoking the provider; and a call invokes the
\* provider only while no entry is recorded for its payload.
C1_GeneratedAtMostOnce ==
    /\ \A k \in DOMAIN generated : Len(generated[k]) = 1
    /\ \A k \in DOMAIN cache :
          k \in DOMAIN generated /\ cache[k] = generated[k][1]
    /\ \A p \in Procs :
          /\ (pc[p] = "done" /\ Key(p) \in DOMAIN cache)
                => /\ frame[p].nsynth = 0
                   /\ frame[p].result = generated[Key(p)][1]
          /\ PastSynthesis(p) => Key(p) \notin DOMAIN cache

\* a later call with a payload already synthesized once is a cache hit
C1_Witness ==
    \E p \in Procs :
        /\ pc[p] = "done"
        /\ Key(p) \in DOMAIN cache
        /\ synthCalls[Key(p)] = 1
        /\ frame[p].result.input_text # frame[p].text_arg

\* C2: whenever get_cached_result returned an entry, the call returns
\* exactly that entry, has not called the provider and has written no file.
C2_HitReturnsEntryUntouched ==
    \A p \in Procs :
        (PastLookup(p) /\ frame[p].cached_result # NoneRec)
            => /\ pc[p] = "done"
               /\ frame[p].result = frame[p].cached_result
               /\ frame[p].nsynth = 0
               /\ ~frame[p].wrote
               /\ files = frame[p].files0

C2_Witness ==
    \E p \in Procs :
        /\ pc[p] = "done"
        /\ frame[p].cached_result # NoneRec
        /\ frame[p].path_arg = ExplicitPath
        /\ frame[p].result.original_audio # ExplicitPath

\* C3: the text of the payload, the text handed to the provider and the
\* input_text of the returned record are the input text with its bookmark
\* markers removed, and none of them contains a marker.
C3_BookmarksRemovedEverywhere ==
    \A p \in Procs :
        LET f == frame[p]
            clean == remove_bookmarks(f.text_arg)
        IN /\ f.input_data # NoneRec
                => /\ f.input_data.input_text = clean
                   /\ ~HasBookmark(f.input_data.input_text)
           /\ f.synthesis_input # NoneRec
                => /\ f.synthesis_input.text = clean
                   /\ ~HasBookmark(f.synthesis_input.text)
           /\ pc[p] = "done"
                => /\ f.result.input_text = clean
                   /\ f.result.input_data.input_text = clean
                   /\ ~HasBookmark(f.result.input_text)

C3_Witness ==
    \E p \in Procs :
        /\ pc[p] = "done"
        /\ HasBookmark(frame[p].text_arg)
        /\ frame[p].synthesis_input # NoneRec
        /\ frame[p].result.input_text = <<"Hello", "world">>

\* the prompt a call resolves to: the prompt keyword if present in the call,
\* else the style_prompt given at construction
ExpectedPrompt(p) ==
    IF "prompt" \in DOMAIN frame[p].kwargs
    THEN frame[p].kwargs["prompt"]
    ELSE constructed.style_prompt

\* C4: the synthesis input of a cache-miss call carries a prompt field
\* exactly when the resolved prompt is neither None nor empty, and then the
\* field is that prompt.
C4_PromptOnlyWhenNonEmpty ==
    \A p \in Procs :
        PastSynthesis(p) =>
            LET si == frame[p].synthesis_input
                pr == ExpectedPrompt(p)
            IN /\ ("prompt" \in DOMAIN si) <=> (pr # None /\ pr # "")
               /\ "prompt" \in DOMAIN si => si.prompt = pr /\ si.prompt # ""
               /\ DOMAIN si \subseteq {"text", "prompt"}

\* an empty prompt override on an instance that has a style prompt
C4_Witness ==
    \E p \in Procs :
        /\ PastSynthesis(p)
        /\ ExpectedPrompt(p) = ""
        /\ constructed.style_prompt = "calm"
        /\ "prompt" \notin DOMAIN frame[p].synthesis_input

\* the path a call writes to: the path argument if one was passed, else the
\* name derived from the payload with ".mp3" appended
ExpectedPath(p) ==
    IF frame[p].path_arg # NoneRec
    THEN frame[p].path_arg
    ELSE [stem |-> get_audio_basename(frame[p].input_data), ext |-> ".mp3"]

\* the directory a call uses: the cache_dir argument if one was passed (an
\* empty string counts as not passed), else the instance's cache_dir
ExpectedDir(p) ==
    IF frame[p].cache_dir \notin {None, ""}
    THEN frame[p].cache_dir
    ELSE constructed.cache_dir

InitErrors == ClientErrors \cup {"ImportError"}

\* C6: a call whose client initialization failed raises the error it got,
\* unchanged; it has looked up nothing, returns nothing, has not called the
\* provider, and has created no cache entry and no file.
C6_InitFailureIsClean ==
    \A p \in Procs :
        (pc[p] = "raised" /\ frame[p].thrown \in InitErrors) =>
            /\ frame[p].exc = frame[p].thrown
            /\ frame[p].base_cache_dir = None
            /\ frame[p].cached_result = NoneRec
            /\ frame[p].result = NoneRec
            /\ frame[p].nsynth = 0
            /\ ~frame[p].wrote
            /\ files = frame[p].files0
            /\ cache = frame[p].cache0

\* client construction raises in a call made after an earlier call failed too
C6_Witness ==
    \E p \in Procs :
        /\ pc[p] = "raised"
        /\ frame[p].thrown \in ClientErrors
        /\ calls = 2

\* C7: a call whose provider call raised re-raises the same error, has
\* called the provider exactly once, has written no file and returns no
\* record.
C7_SynthesisFailureIsClean ==
    \A p \in Procs :
        (pc[p] = "raised" /\ frame[p].thrown \in SynthesisErrors) =>
            /\ frame[p].exc = frame[p].thrown
            /\ frame[p].nsynth = 1
            /\ ~frame[p].wrote
            /\ files = frame[p].files0
            /\ <<ExpectedDir(p), ExpectedPath(p)>> \notin
                  DOMAIN files \ DOMAIN frame[p].files0
            /\ frame[p].result = NoneRec
            /\ cache = frame[p].cache0

\* the provider raises in a call with an explicit path, after an earlier call
\* has written a file
C7_Witness ==
    \E p \in Procs :
        /\ pc[p] = "raised"
        /\ frame[p].thrown \in SynthesisErrors
        /\ frame[p].path_arg = ExplicitPath
        /\ DOMAIN files # {}

\* the value a call resolves a parameter to: the keyword if present in the
\* call, else the value given at construction
Expected(p, key, default) ==
    IF key \in DOMAIN frame[p].kwargs THEN frame[p].kwargs[key] ELSE default

\* C8: the payload and the provider call use, for each of prompt, lang,
\* voice_name and model_name, the keyword of the call if present and else
\* the value given at construction; the instance's values stay those given
\* at construction.
C8_OverrideElseDefault ==
    /\ self.style_prompt = constructed.style_prompt
    /\ self.lang = constructed.lang
    /\ self.voice_name = constructed.voice_name
    /\ self.model_name = constructed.model_name
    /\ \A p \in Procs :
          LET f == frame[p]
              prompt == Expected(p, "prompt", constructed.style_prompt)
              lang   == Expected(p, "lang", constructed.lang)
              voice  == Expected(p, "voice_name", constructed.voice_name)
              model  == Expected(p, "model_name", constructed.model_name)
          IN /\ f.input_data # NoneRec
                  => /\ f.input_data.prompt = prompt
                     /\ f.input_data.lang = lang
                     /\ f.input_data.voice = voice
                     /\ f.input_data.model = model
             /\ PastSynthesis(p)
                  => /\ f.voice_params.language_code = lang
                     /\ f.voice_params.name = voice
                     /\ f.voice_params.model_name = model
                     /\ "prompt" \in DOMAIN f.synthesis_input
                           => f.synthesis_input.prompt = prompt

\* a call without overrides made after a call that overrode every parameter
C8_Witness ==
    \E p \in Procs :
        /\ PastSynthesis(p)
        /\ frame[p].kwargs = EmptyKwargs
        /\ frame[p].voice_params.language_code = "en-US"
        /\ frame[p].voice_params.name = "Charon"
        /\ \E k \in DOMAIN generated :
              k[2].lang = "fr-FR" /\ k[2].voice = "Kore"

PastEnsureClient(p) ==
    pc[p] \in {"resolve", "lookup", "synthesize", "write", "done"}

C9_Lifecycle ==
    /\ calls = 0 => self.client = NoClient
    /\ self.client = NoClient <=> ctorCalls = 0
    /\ ctorCalls <= 1
    /\ \A p \in Procs :
          /\ (pc[p] = "raised" /\ frame[p].thrown \in InitErrors)
                => self.client = NoClient
          /\ PastEnsureClient(p) => self.client # NoClient

C9_NoRevert ==
    /\ self.client # NoClient => self'.client = self.client
    /\ self'.client # self.client => \E p \in Procs : pc[p] = "construct"

\* C9: with calls made one after another, the client is None after
\* construction of the instance, is set by the first call whose client
\* construction succeeds, is never reset or replaced afterwards, the
\* constructor returns at most once, and a failed initialization leaves the
\* client None.
C9_TwoStateLifecycle == []C9_Lifecycle /\ [][C9_NoRevert]_vars

\* a second call reuses the client the first call constructed
C9_Witness ==
    \E p \in Procs :
        /\ calls = 2
        /\ pc[p] = "resolve"
        /\ DOMAIN frame[p].cache0 # {}
        /\ self.client = 1
        /\ ctorCalls = 1

\* C10: with concurrent callers, a caller that observed self.client to be
\* None constructs a client whatever the other caller has done since (nothing
\* makes it wait or re-check), and the client it constructs replaces the
\* one already set.
C10_CreationUnguarded ==
    /\ \A p \in Procs : pc[p] = "construct" => ENABLED ConstructClient(p)
    /\ self.client = ctorCalls
    /\ ctorCalls <= calls

\* both callers' first calls constructed a client
C10_Witness ==
    /\ calls = 2
    /\ ctorCalls = 2
    /\ \A p \in Procs : PastEnsureClient(p)

====
